---- MODULE Spec2Model ----
(***************************************************************************)
(* serum-crank: the consume-events crank loop of src/lib.rs, its worker    *)
(* pool, and the binary account decoder it shares with print-event-queue.  *)
(*                                                                         *)
(* Bytes are naturals 0..255, 64-bit words are naturals (the inputs drawn  *)
(* below keep every word under 2^31, so no word arithmetic wraps).         *)
(* A call that can return Ok, return Err or panic is modelled by a record  *)
(* whose kind is "ok", "err" or "panic".                                   *)
(***************************************************************************)
EXTENDS Naturals, Sequences, FiniteSets

(***************************************************************************)
(* Bounds of the model.                                                    *)
(***************************************************************************)
MaxCapacity == 2        \* event slots in a sampled queue account
MaxSlot == 2            \* greatest slot an RPC answer carries
MaxIterations == 3      \* the loop is followed for this many iterations
MaxWorkers == 2         \* greatest configured num_workers
MaxEventsPerWorker == 3 \* greatest configured events_per_worker
MaxAccounts == 2        \* greatest configured num_accounts
MaxQLength == 2         \* greatest configured max_q_length
MaxWait == 2            \* the non-zero max_wait_for_events_delay offered, in seconds

(***************************************************************************)
(* Constants of the program and of the exchange library it links.          *)
(***************************************************************************)
\* size_of::<EventQueueHeader>() >> 3: account_flags, head, count, seq_num
HeaderWords == 4
\* size_of::<Event>() >> 3: the packed 88-byte event record
EventWords == 11
\* thread::sleep(time::Duration::from_millis(1000)), in seconds
SleepSecs == 1

\* u16::MAX, the greatest limit `to_consume as u16` can yield
U16Max == 65535

\* serum_dex::state::ACCOUNT_HEAD_PADDING, b"serum"
ACCOUNT_HEAD_PADDING == <<115, 101, 114, 117, 109>>
\* serum_dex::state::ACCOUNT_TAIL_PADDING, b"padding"
ACCOUNT_TAIL_PADDING == <<112, 97, 100, 100, 105, 110, 103>>

(***************************************************************************)
(* Sequence helpers.                                                       *)
(***************************************************************************)
Min(a, b) == IF a < b THEN a ELSE b

Range(s) == {s[i] : i \in 1..Len(s)}

\* &s[from..to] with 0-based, end-exclusive bounds
Slice(s, from, to) == SubSeq(s, from + 1, to)

\* the concatenation of the sequences of ss, each of length n
Concat(ss, n) ==
    [k \in 1..(Len(ss) * n) |-> ss[((k - 1) \div n) + 1][((k - 1) % n) + 1]]

(***************************************************************************)
(* transmute_to_bytes / transmute_many on a little-endian host.            *)
(***************************************************************************)
\* the i-th (1-based) little-endian byte of a word below 2^31
ByteOfWord(w, i) ==
    CASE i = 1 -> w % 256
      [] i = 2 -> (w \div 256) % 256
      [] i = 3 -> (w \div 65536) % 256
      [] i = 4 -> (w \div 16777216) % 256
      [] OTHER -> 0

transmute_one_to_bytes(w) == [i \in 1..8 |-> ByteOfWord(w, i)]

transmute_to_bytes(words) ==
    Concat([k \in 1..Len(words) |-> transmute_one_to_bytes(words[k])], 8)

\* the word held by 8 little-endian bytes
WordOfBytes(b) ==
    b[1] + 256 * (b[2] + 256 * (b[3] + 256 * (b[4] + 256 * (b[5]
         + 256 * (b[6] + 256 * (b[7] + 256 * b[8]))))))

\* the floor(len / 8) whole words of a byte slice
WordsOfBytes(bytes) ==
    [k \in 1..(Len(bytes) \div 8) |-> WordOfBytes(SubSeq(bytes, 8 * (k - 1) + 1, 8 * k))]

(***************************************************************************)
(* remove_dex_account_padding.  `aligned` says whether the inner region    *)
(* of the buffer happens to be 8-byte aligned: transmute_many_pedantic     *)
(* then applies its guard (at least one word, no extra byte); otherwise it *)
(* reports Unaligned and the error's copy() yields the whole words.        *)
(***************************************************************************)
Ok(v) == [kind |-> "ok", val |-> v]
Err(e) == [kind |-> "err", val |-> e]
Panic == [kind |-> "panic", val |-> "panic"]

remove_dex_account_padding(data, aligned) ==
    LET hl == Len(ACCOUNT_HEAD_PADDING)
        tl == Len(ACCOUNT_TAIL_PADDING)
    IN  IF Len(data) < hl
        THEN Panic                              \* &data[..hl] is out of range
        ELSE IF Len(data) < hl + tl
        THEN Err("TooShort")
        ELSE IF Slice(data, 0, hl) # ACCOUNT_HEAD_PADDING
        THEN Err("HeadMismatch")
        ELSE IF Slice(data, Len(data) - tl, Len(data)) # ACCOUNT_TAIL_PADDING
        THEN Err("TailMismatch")
        ELSE LET inner == Slice(data, hl, Len(data) - tl)
             IN  IF aligned
                 THEN IF Len(inner) = 0 \/ Len(inner) % 8 # 0
                      THEN Err("Guard")
                      ELSE Ok(WordsOfBytes(inner))
                 ELSE Ok(WordsOfBytes(inner))

(***************************************************************************)
(* parse_event_queue.                                                      *)
(***************************************************************************)
\* the Event record laid over EventWords words
Event(w) ==
    [flags |-> w[1], native_qty_released |-> w[2], native_qty_paid |-> w[3],
     native_fee_or_rebate |-> w[4], order_id |-> <<w[5], w[6]>>,
     owner |-> <<w[7], w[8], w[9], w[10]>>, client_order_id |-> w[11]]

\* the EventQueueHeader laid over HeaderWords words
EventQueueHeader(w) ==
    [account_flags |-> w[1], head |-> w[2], count |-> w[3], seq_num |-> w[4]]

\* transmute_many::<Event, SingleManyGuard>: whole events, trailing bytes dropped
EventsOfWords(event_words) ==
    [i \in 1..(Len(event_words) \div EventWords) |->
        Event(SubSeq(event_words, EventWords * (i - 1) + 1, EventWords * i))]

SplitHead(header, events) == header.head

\* SegLens without the wrapped part: the events before `head` are dropped
SegLens_NoWrap(header, events) ==
    <<Min(Len(events) - header.head, header.count), 0>>

SegLens(header, events) ==
    LET head_seg_len == Len(events) - header.head
        head_len == Min(head_seg_len, header.count)
    IN  <<head_len, header.count - head_len>>

parse_event_queue(data_words) ==
    IF Len(data_words) < HeaderWords
    THEN Panic                                  \* split_at past the end
    ELSE LET header == EventQueueHeader(Slice(data_words, 0, HeaderWords))
             event_words == Slice(data_words, HeaderWords, Len(data_words))
         IN  IF Len(event_words) < EventWords
             THEN Err("EventDecode")            \* SingleManyGuard: no whole event
             ELSE LET events == EventsOfWords(event_words)
                      mid == SplitHead(header, events)
                  IN  IF mid > Len(events)
                      THEN Panic                \* events.split_at(head)
                      ELSE LET tail_seg == Slice(events, 0, mid)
                               head_seg == Slice(events, mid, Len(events))
                               lens == SegLens(header, events)
                           IN  IF lens[2] > Len(tail_seg)
                               THEN Panic       \* &tail_seg[..tail_len]
                               ELSE Ok([header |-> header,
                                        seg0 |-> Slice(head_seg, 0, lens[1]),
                                        seg1 |-> Slice(tail_seg, 0, lens[2])])

(***************************************************************************)
(* The accounts the RPC node may return.  A queue account is the framing   *)
(* around a header and `cap` events; event i carries client_order_id i so  *)
(* that events are told apart.  Damaged accounts are cut short, carry a    *)
(* stray byte, or have a wrong padding byte.                               *)
(***************************************************************************)
Owners == {<<1, 0, 0, 0>>, <<256, 0, 0, 0>>}

EventRecordWords(owner, id) == <<0, 0, 0, 0, 0, 0>> \o owner \o <<id>>

QueueWords(head, count, owners) ==
    <<3, head, count, 0>>
        \o Concat([i \in 1..Len(owners) |-> EventRecordWords(owners[i], i)], EventWords)

Framed(inner_bytes) == ACCOUNT_HEAD_PADDING \o inner_bytes \o ACCOUNT_TAIL_PADDING

OwnerSeqs(cap) == [1..cap -> Owners]

QueueAccounts ==
    {Framed(transmute_to_bytes(QueueWords(head, count, owners))) :
        <<head, count, owners>> \in
            UNION {(0..(cap + 1)) \X (0..(cap + 1)) \X OwnerSeqs(cap) :
                       cap \in 0..MaxCapacity}}

Prefixes(s) == {SubSeq(s, 1, n) : n \in 0..Len(s)}

DamagedAccounts ==
    LET good == transmute_to_bytes(QueueWords(0, 1, <<CHOOSE o \in Owners : TRUE>>))
    IN  Prefixes(Framed(<<>>) \o <<0>>)
        \cup {Framed(SubSeq(good, 1, n)) : n \in {0, 8, 16, 24, 32, 33}}
        \cup {Framed(good \o <<7>>)}
        \cup {<<0>> \o Tail(Framed(good))}
        \cup {SubSeq(Framed(good), 1, Len(Framed(good)) - 1) \o <<0>>}

\* capacity 16, head 14, count 5: the live events wrap around the end
WrapAccount ==
    Framed(transmute_to_bytes(QueueWords(14, 5, [i \in 1..16 |-> <<i, 0, 0, 0>>])))

SampleAccounts == QueueAccounts \cup DamagedAccounts \cup {WrapAccount}

(***************************************************************************)
(* State.  The configuration is fixed by the command line; the rest are    *)
(* the locals of start / consume_events_loop, the mutex and the pool.      *)
(***************************************************************************)
VARIABLES
    command,                    \* opts.command
    pc,                         \* where the main thread is
    num_workers, events_per_worker, num_accounts,
    max_q_length, max_wait_for_events_delay,
    now,                        \* std::time::Instant::now(), in seconds
    last_cranked_at,
    iterations,                 \* loop bodies entered so far
    max_slot_height,            \* the value inside max_slot_height_mutex
    lock,                       \* who holds max_slot_height_mutex
    event_q_slot,               \* event_q_value_and_context.context.slot
    event_q_value,              \* .value: "None", or the account's data
    inner,                      \* PrintEventQueue: result of remove_dex_account_padding
    parsed,                     \* result of parse_event_queue
    account_metas,
    worker_count,               \* the upper end of the thread_num range
    thread_num,
    tasks,                      \* the closures given to pool.execute
    outcome,                    \* how the current iteration has ended so far
    iter_start,                 \* watermark and timestamp when the iteration began
    succeeded                   \* slots of the workers that returned Ok

config == <<command, num_workers, events_per_worker, num_accounts,
            max_q_length, max_wait_for_events_delay>>

loop_vars == <<now, last_cranked_at, iterations, max_slot_height, lock, event_q_slot,
               account_metas, worker_count, thread_num, tasks, outcome,
               iter_start, succeeded>>

vars == <<config, pc, event_q_value, inner, parsed, loop_vars>>

\* Option<Account>::None, also the value before any fetch
NoAccount == [some |-> FALSE, data |-> <<>>, aligned |-> FALSE]
NotRun == [kind |-> "none", val |-> "none"]
\* a task's transaction before consume_events_once has built it
NoTransaction == [instructions |-> <<>>, payer |-> "none", recent_blockhash |-> "none"]

(***************************************************************************)
(* Command::PrintEventQueue (start, the second match arm).                 *)
(***************************************************************************)
InitPrint ==
    /\ command = "PrintEventQueue"
    /\ pc = "get_account_data"
    /\ num_workers = 1 /\ events_per_worker = 1 /\ num_accounts = 32
    /\ max_q_length = 1 /\ max_wait_for_events_delay = 60
    /\ now = 0 /\ last_cranked_at = 0 /\ iterations = 0
    /\ max_slot_height = 0 /\ lock = "free"
    /\ event_q_slot = 0
    /\ event_q_value = NoAccount
    /\ inner = NotRun /\ parsed = NotRun
    /\ account_metas = <<>> /\ worker_count = 0 /\ thread_num = 0
    /\ tasks = <<>>
    /\ outcome = {}
    /\ iter_start = [watermark |-> 0, cranked |-> 0]
    /\ succeeded = {}

\* client.get_account_data(&market_keys.event_q)?
PrintGetAccountData ==
    /\ command = "PrintEventQueue" /\ pc = "get_account_data"
    /\ \/ /\ pc' = "returned_err"
          /\ UNCHANGED event_q_value
       \/ /\ \E data \in SampleAccounts, al \in BOOLEAN :
                event_q_value' = [some |-> TRUE, data |-> data, aligned |-> al]
          /\ pc' = "remove_dex_account_padding"
    /\ UNCHANGED <<config, inner, parsed, loop_vars>>

\* let inner = remove_dex_account_padding(&event_q_data)?
PrintRemovePadding ==
    /\ command = "PrintEventQueue" /\ pc = "remove_dex_account_padding"
    /\ inner' = remove_dex_account_padding(event_q_value.data, event_q_value.aligned)
    /\ pc' = CASE inner'.kind = "ok" -> "parse_event_queue"
               [] inner'.kind = "err" -> "returned_err"
               [] OTHER -> "panicked"
    /\ UNCHANGED <<config, event_q_value, parsed, loop_vars>>

\* let (header, events_seg0, events_seg1) = parse_event_queue(&inner)?; println!
PrintParse ==
    /\ command = "PrintEventQueue" /\ pc = "parse_event_queue"
    /\ parsed' = parse_event_queue(inner.val)
    /\ pc' = CASE parsed'.kind = "ok" -> "printed"
               [] parsed'.kind = "err" -> "returned_err"
               [] OTHER -> "panicked"
    /\ UNCHANGED <<config, event_q_value, inner, loop_vars>>

NextPrint == PrintGetAccountData \/ PrintRemovePadding \/ PrintParse

SpecPrint == InitPrint /\ [][NextPrint]_vars

(***************************************************************************)
(* Command::ConsumeEvents: consume_events_loop and its workers.            *)
(***************************************************************************)
Max(a, b) == IF a > b THEN a ELSE b

\* Ord for [u64; 4]: lexicographic over the four words
OwnerLess(a, b) ==
    \E i \in 1..4 : a[i] < b[i] /\ \A j \in 1..(i - 1) : a[j] = b[j]

\* an ordered insert that keeps duplicates, as a sorted Vec would
BTreeInsert_KeepDuplicates(used, account) ==
    LET below == Cardinality({i \in 1..Len(used) : OwnerLess(used[i], account)})
    IN  SubSeq(used, 1, below) \o <<account>> \o SubSeq(used, below + 1, Len(used))

\* an insert that keeps the order of arrival, as a Vec with a `contains` test
BTreeInsert_ArrivalOrder(used, account) ==
    IF account \in Range(used) THEN used ELSE Append(used, account)

\* BTreeSet::insert on the set's ascending listing
BTreeInsert(used, account) ==
    IF account \in Range(used)
    THEN used
    ELSE LET below == Cardinality({i \in 1..Len(used) : OwnerLess(used[i], account)})
         IN  SubSeq(used, 1, below) \o <<account>> \o SubSeq(used, below + 1, Len(used))

\* for account in accounts { used_accounts.insert(account);
\*                           if used_accounts.len() >= num_accounts { break; } }
RECURSIVE UsedAccounts(_, _, _)
UsedAccounts(accounts, used, limit) ==
    IF accounts = <<>>
    THEN used
    ELSE LET next == BTreeInsert(used, Head(accounts))
         IN  IF Len(next) >= limit
             THEN next
             ELSE UsedAccounts(Tail(accounts), next, limit)

\* Pubkey::new(transmute_to_bytes(&pubkey_words))
Pubkey(pubkey_words) == transmute_to_bytes(pubkey_words)

\* AccountMeta::new(pubkey, false)
AccountMeta(pubkey) == [pubkey |-> pubkey, is_signer |-> FALSE, is_writable |-> TRUE]

\* the addresses fixed by the command line and by get_keys_for_market
MarketKey == Pubkey(<<101, 0, 0, 0>>)
EventQKey == Pubkey(<<102, 0, 0, 0>>)
CoinWallet == Pubkey(<<103, 0, 0, 0>>)
PcWallet == Pubkey(<<104, 0, 0, 0>>)

\* the fixed accounts pushed in another order: the event queue before the market
BuildAccountMetas_EventQFirst(orders_accounts) ==
    [i \in 1..Len(orders_accounts) |-> AccountMeta(Pubkey(orders_accounts[i]))]
        \o <<AccountMeta(EventQKey), AccountMeta(MarketKey),
             AccountMeta(CoinWallet), AccountMeta(PcWallet)>>

BuildAccountMetas(orders_accounts) ==
    [i \in 1..Len(orders_accounts) |-> AccountMeta(Pubkey(orders_accounts[i]))]
        \o <<AccountMeta(MarketKey), AccountMeta(EventQKey),
             AccountMeta(CoinWallet), AccountMeta(PcWallet)>>

\* the stale test with < for <=
StaleSlot_Strict(slot, watermark) == slot < watermark

\* event_q_slot <= *max_slot_height
StaleSlot(slot, watermark) == slot <= watermark

\* the throttle test with >= for >: still throttled when exactly max_wait
\* seconds have elapsed
Throttled_AtTheLimit(event_q_len, elapsed) ==
    max_wait_for_events_delay >= elapsed /\ event_q_len < max_q_length

\* the throttle test with || for &&
Throttled_Either(event_q_len, elapsed) ==
    max_wait_for_events_delay > elapsed \/ event_q_len < max_q_length

\* Duration::from_secs(max_wait).gt(&last_cranked_at.elapsed())
\*     && (event_q_len as u64) < max_q_length
Throttled(event_q_len, elapsed) ==
    max_wait_for_events_delay > elapsed /\ event_q_len < max_q_length

\* the thread range without its + 1
WorkerCount_NoPlusOne(event_q_len) ==
    Min(num_workers, (2 * event_q_len) \div events_per_worker)

\* min(num_workers, 2 * event_q_len / events_per_worker + 1)
WorkerCount(event_q_len) ==
    Min(num_workers, (2 * event_q_len) \div events_per_worker + 1)

\* the watermark update lost: the old value is written back
NewWatermark_Stays(slot, watermark) == watermark

\* the watermark update with min for max
NewWatermark_Min(slot, watermark) == Min(slot, watermark)

\* *max_slot_height = max(slot, *max_slot_height)
NewWatermark(slot, watermark) == Max(slot, watermark)

\* Instant::now().checked_sub(Duration::from_secs(max_wait)).unwrap_or(now)
InitialCrankedAt(t) ==
    IF t >= max_wait_for_events_delay THEN t - max_wait_for_events_delay ELSE t

(***************************************************************************)
(* What the RPC node answers to the loop's two fetches.                    *)
(***************************************************************************)
\* The queues offered to the loop start at the last slot, so that two or more
\* live events wrap around; a slot outside the live window still holds a
\* consumed event, always of the same owner.
ConsumedOwner == <<1, 0, 0, 0>>

\* whether the event at 1-based slot i is one of the count events from head
LiveSlot(head, count, cap, i) == ((i - 1) + cap - head) % cap < count

LoopOwnerSeqs(head, count) ==
    {owners \in OwnerSeqs(MaxCapacity) :
        \A i \in 1..MaxCapacity :
            ~LiveSlot(head, count, MaxCapacity, i) => owners[i] = ConsumedOwner}

LoopQueueAccounts ==
    {Framed(transmute_to_bytes(QueueWords(MaxCapacity - 1, co[1], co[2]))) :
        co \in UNION {{<<count, owners>> : owners \in LoopOwnerSeqs(MaxCapacity - 1, count)} :
                         count \in 0..MaxCapacity}}

LoopDamagedAccounts ==
    {<<>>, ACCOUNT_HEAD_PADDING, Framed(<<>>),
     Framed(transmute_to_bytes(QueueWords(MaxCapacity + 1, 1,
                [i \in 1..MaxCapacity |-> CHOOSE o \in Owners : TRUE])))}

EventQValues ==
    {[some |-> TRUE, data |-> d, aligned |-> FALSE] :
        d \in LoopQueueAccounts \cup LoopDamagedAccounts}
        \cup {[some |-> TRUE, data |-> Framed(<<>>), aligned |-> TRUE]}
        \cup {NoAccount}

ReqQValues ==
    {[some |-> TRUE, data |-> d, aligned |-> FALSE] :
        d \in {Framed(transmute_to_bytes(QueueWords(0, 1, <<CHOOSE o \in Owners : TRUE>>))),
               Framed(transmute_to_bytes(QueueWords(0, 0, <<>>))),
               Framed(<<>>), <<>>}}
        \cup {NoAccount}

(***************************************************************************)
(* The command lines followed.  The baseline takes the optional flags at   *)
(* their defaults (num_accounts above any queue sampled, max_q_length 1, a *)
(* non-zero max wait) on a host up for longer than the max wait; the other *)
(* command lines vary the worker flags, or num_accounts, or the throttle   *)
(* flags and the host's uptime; one has max_q_length 0.                    *)
(***************************************************************************)
CommandLine(nw, epw, na, mql, mw, up) ==
    [num_workers |-> nw, events_per_worker |-> epw, num_accounts |-> na,
     max_q_length |-> mql, max_wait_for_events_delay |-> mw, uptime |-> up]

CommandLines ==
    {CommandLine(nw, epw, MaxAccounts, 1, MaxWait, MaxWait) :
        nw \in 0..MaxWorkers, epw \in {0, 1, MaxEventsPerWorker}}
    \cup {CommandLine(1, 1, na, 1, MaxWait, MaxWait) : na \in 0..MaxAccounts}
    \cup {CommandLine(1, 1, MaxAccounts, mql, mw, up) :
            mql \in 1..MaxQLength, mw \in {0, MaxWait}, up \in {0, MaxWait}}
    \cup {CommandLine(1, 1, MaxAccounts, 0, MaxWait, 0)}

Init ==
    /\ command = "ConsumeEvents"
    /\ pc = "start"
    /\ \E c \in CommandLines :
          /\ num_workers = c.num_workers
          /\ events_per_worker = c.events_per_worker
          /\ num_accounts = c.num_accounts
          /\ max_q_length = c.max_q_length
          /\ max_wait_for_events_delay = c.max_wait_for_events_delay
          /\ now = c.uptime
    /\ last_cranked_at = 0 /\ iterations = 0
    /\ max_slot_height = 0 /\ lock = "free"
    /\ event_q_slot = 0
    /\ event_q_value = NoAccount
    /\ inner = NotRun /\ parsed = NotRun
    /\ account_metas = <<>> /\ worker_count = 0 /\ thread_num = 0
    /\ tasks = <<>>
    /\ outcome = {}
    /\ iter_start = [watermark |-> 0, cranked |-> 0]
    /\ succeeded = {}

\* lines 289-297: resolve the market keys, build the pool and the mutex
Startup ==
    /\ command = "ConsumeEvents" /\ pc = "start"
    /\ \/ /\ pc' = "returned_err"             \* get_keys_for_market(..)?
          /\ UNCHANGED last_cranked_at
       \/ /\ num_workers = 0                  \* ThreadPool::new(0) asserts
          /\ pc' = "panicked"
          /\ UNCHANGED last_cranked_at
       \/ /\ num_workers > 0
          /\ last_cranked_at' = InitialCrankedAt(now)
          /\ pc' = "sleep"
    /\ iter_start' = [watermark |-> max_slot_height, cranked |-> last_cranked_at']
    /\ UNCHANGED <<config, event_q_value, inner, parsed, now, iterations, max_slot_height, lock,
                   event_q_slot, account_metas, worker_count, thread_num, tasks,
                   outcome, succeeded>>

\* line 300: the top of the loop body; the previous iteration's locals are gone
Sleep ==
    /\ command = "ConsumeEvents" /\ pc = "sleep"
    /\ iterations < MaxIterations
    /\ iterations' = iterations + 1
    /\ now' = now + SleepSecs
    /\ pc' = "get_event_q"
    /\ event_q_slot' = 0 /\ event_q_value' = NoAccount
    /\ inner' = NotRun /\ parsed' = NotRun
    /\ account_metas' = <<>> /\ worker_count' = 0 /\ thread_num' = 0
    /\ tasks' = <<>>
    /\ outcome' = {}
    /\ iter_start' = [watermark |-> max_slot_height, cranked |-> last_cranked_at]
    /\ UNCHANGED <<config, last_cranked_at, max_slot_height, lock, succeeded>>

\* lines 304-307: client.get_account_with_commitment(&market_keys.event_q, ..)?
\* and then max_slot_height_mutex.lock().unwrap(), which waits for the mutex
GetEventQ ==
    /\ command = "ConsumeEvents" /\ pc = "get_event_q"
    /\ \/ /\ pc' = "returned_err"
          /\ UNCHANGED <<event_q_slot, event_q_value, lock>>
       \/ /\ event_q_slot' \in 0..MaxSlot
          /\ event_q_value' \in EventQValues
          /\ lock = "free"
          /\ lock' = "control"
          /\ pc' = "stale_gate"
    /\ UNCHANGED <<config, inner, parsed, now, iterations, last_cranked_at,
                   max_slot_height, account_metas, worker_count, thread_num, tasks,
                   outcome, iter_start, succeeded>>

\* the stale branch logs and then falls through, its `continue` missing
StaleGate_NoContinue ==
    /\ command = "ConsumeEvents" /\ pc = "stale_gate"
    /\ outcome' = IF StaleSlot(event_q_slot, max_slot_height)
                  THEN outcome \cup {"stale"} ELSE outcome
    /\ pc' = "decode"
    /\ lock' = "free"
    /\ UNCHANGED <<config, event_q_value, inner, parsed, now, iterations, last_cranked_at,
                   max_slot_height, event_q_slot, account_metas, worker_count,
                   thread_num, tasks, iter_start, succeeded>>

\* StaleGate without drop(max_slot_height): past the gate the guard lives on
\* to the end of the loop body
StaleGate_KeepsLock ==
    /\ command = "ConsumeEvents" /\ pc = "stale_gate"
    /\ IF StaleSlot(event_q_slot, max_slot_height)
       THEN /\ outcome' = outcome \cup {"stale"}
            /\ pc' = "sleep"
            /\ lock' = "free"
       ELSE /\ outcome' = outcome
            /\ pc' = "decode"
            /\ lock' = lock
    /\ UNCHANGED <<config, event_q_value, inner, parsed, now, iterations, last_cranked_at,
                   max_slot_height, event_q_slot, account_metas, worker_count,
                   thread_num, tasks, iter_start, succeeded>>

\* lines 308-315: `continue` drops the guard, as does drop(max_slot_height)
StaleGate ==
    /\ command = "ConsumeEvents" /\ pc = "stale_gate"
    /\ IF StaleSlot(event_q_slot, max_slot_height)
       THEN /\ outcome' = outcome \cup {"stale"}
            /\ pc' = "sleep"
       ELSE /\ outcome' = outcome
            /\ pc' = "decode"
    /\ lock' = "free"
    /\ UNCHANGED <<config, event_q_value, inner, parsed, now, iterations, last_cranked_at,
                   max_slot_height, event_q_slot, account_metas, worker_count,
                   thread_num, tasks, iter_start, succeeded>>

\* where a failed call leaves the main thread: `?` returns, a panic unwinds
FailedAt(r) == IF r.kind = "err" THEN "returned_err" ELSE "panicked"

Ended(at, pa, how) ==
    [pc |-> at, parsed |-> pa, outcome |-> how,
     account_metas |-> <<>>, worker_count |-> 0]

\* the throttle branch logs "Skipping crank" and then falls through
Gates_ThrottleFallsThrough(pa) ==
    LET live == pa.val.seg0 \o pa.val.seg1
        event_q_len == Len(pa.val.seg0) + Len(pa.val.seg1)
        accounts == [i \in 1..Len(live) |-> live[i].owner]
        orders_accounts == UsedAccounts(accounts, <<>>, num_accounts)
    IN  IF event_q_len = 0
        THEN Ended("sleep", pa, {"empty"})
        ELSE IF events_per_worker = 0
        THEN [pc |-> "panicked", parsed |-> pa, outcome |-> {},
              account_metas |-> BuildAccountMetas(orders_accounts),
              worker_count |-> 0]
        ELSE [pc |-> "dispatch", parsed |-> pa,
              outcome |-> IF Throttled(event_q_len, now - last_cranked_at)
                          THEN {"throttled"} ELSE {},
              account_metas |-> BuildAccountMetas(orders_accounts),
              worker_count |-> WorkerCount(event_q_len)]

\* lines 336-402, once both queues are decoded
Gates(pa) ==
    LET live == pa.val.seg0 \o pa.val.seg1
        event_q_len == Len(pa.val.seg0) + Len(pa.val.seg1)
        accounts == [i \in 1..Len(live) |-> live[i].owner]
        orders_accounts == UsedAccounts(accounts, <<>>, num_accounts)
    IN  IF event_q_len = 0
        THEN Ended("sleep", pa, {"empty"})
        ELSE IF Throttled(event_q_len, now - last_cranked_at)
        THEN Ended("sleep", pa, {"throttled"})
        ELSE IF events_per_worker = 0
        THEN [pc |-> "panicked", parsed |-> pa, outcome |-> {},
              account_metas |-> BuildAccountMetas(orders_accounts),
              worker_count |-> 0]               \* division by zero in the range
        ELSE [pc |-> "dispatch", parsed |-> pa, outcome |-> {},
              account_metas |-> BuildAccountMetas(orders_accounts),
              worker_count |-> WorkerCount(event_q_len)]

\* lines 316-334, given the request-queue account the node returned
Decoded(req_q_value) ==
    LET in == remove_dex_account_padding(event_q_value.data, event_q_value.aligned)
        pa == parse_event_queue(in.val)
        req_inner == remove_dex_account_padding(req_q_value.data, req_q_value.aligned)
        req_parsed == parse_event_queue(req_inner.val)
    IN  IF ~event_q_value.some \/ ~req_q_value.some
        THEN Ended("returned_err", NotRun, {})
        ELSE IF in.kind # "ok" THEN Ended(FailedAt(in), NotRun, {})
        ELSE IF pa.kind # "ok" THEN Ended(FailedAt(pa), pa, {})
        ELSE IF req_inner.kind # "ok" THEN Ended(FailedAt(req_inner), pa, {})
        ELSE IF req_parsed.kind # "ok" THEN Ended(FailedAt(req_parsed), pa, {})
        ELSE Gates(pa)

\* lines 316-402: fetch the request queue, decode both queues, apply the
\* empty and throttle gates, build the account metas and the thread range
Decode ==
    /\ command = "ConsumeEvents" /\ pc = "decode"
    /\ \E r \in {Decoded(v) : v \in ReqQValues}
              \cup {Ended("returned_err", NotRun, {})} :      \* req_q fetch failed
          /\ pc' = r.pc
          /\ parsed' = r.parsed
          /\ outcome' = outcome \cup r.outcome
          /\ account_metas' = r.account_metas
          /\ worker_count' = r.worker_count
    /\ event_q_value' = NoAccount              \* .value is moved out at line 316
    /\ thread_num' = 0
    /\ UNCHANGED <<config, inner, now, iterations, last_cranked_at, max_slot_height,
                   lock, event_q_slot, tasks, iter_start, succeeded>>

\* lines 403-421: one turn of the for loop
Submit ==
    /\ command = "ConsumeEvents" /\ pc = "dispatch"
    /\ thread_num < worker_count
    /\ \/ /\ pc' = "returned_err"             \* read_keypair_file(&payer_path)?
          /\ UNCHANGED <<tasks, thread_num>>
       \/ /\ tasks' = Append(tasks, [thread_num |-> thread_num,
                                     slot |-> event_q_slot,
                                     account_metas |-> account_metas,
                                     status |-> "queued"])
          /\ thread_num' = thread_num + 1
          /\ pc' = pc
    /\ UNCHANGED <<config, event_q_value, inner, parsed, now, iterations, last_cranked_at,
                   max_slot_height, lock, event_q_slot, account_metas, worker_count,
                   outcome, iter_start, succeeded>>

TaskDone(t) == t.status \in {"ok", "err"}

\* Join without the wait: the loop goes on while tasks are queued or active
Join_NoWait ==
    /\ command = "ConsumeEvents" /\ pc = "dispatch"
    /\ thread_num = worker_count
    /\ last_cranked_at' = now
    /\ outcome' = outcome \cup {"dispatched"}
    /\ pc' = "sleep"
    /\ UNCHANGED <<config, event_q_value, inner, parsed, now, iterations,
                   max_slot_height, lock, event_q_slot, account_metas, worker_count,
                   thread_num, tasks, iter_start, succeeded>>

\* lines 423-424: pool.join() returns once no task is queued or active
Join ==
    /\ command = "ConsumeEvents" /\ pc = "dispatch"
    /\ thread_num = worker_count
    /\ \A i \in 1..Len(tasks) : TaskDone(tasks[i])
    /\ last_cranked_at' = now
    /\ outcome' = outcome \cup {"dispatched"}
    /\ pc' = "sleep"
    /\ UNCHANGED <<config, event_q_value, inner, parsed, now, iterations,
                   max_slot_height, lock, event_q_slot, account_metas, worker_count,
                   thread_num, tasks, iter_start, succeeded>>

(***************************************************************************)
(* consume_events_wrapper / consume_events_once, run by a pool thread.     *)
(***************************************************************************)
worker_unchanged == <<config, pc, event_q_value, inner, parsed, now, iterations,
                      last_cranked_at,
                      event_q_slot, account_metas, worker_count, thread_num,
                      outcome, iter_start>>

\* lines 481-498: client.get_recent_blockhash()?, then build and sign
WorkerBlockhash(i) ==
    /\ i \in 1..Len(tasks) /\ tasks[i].status = "queued"
    /\ \E s \in {"signed", "err"} : tasks' = [tasks EXCEPT ![i].status = s]
    /\ UNCHANGED <<worker_unchanged, max_slot_height, lock, succeeded>>

\* WorkerSend with the watermark raised before the result is matched, so that
\* a failed send advances it too
WorkerSend_FailureAdvances(i) ==
    /\ i \in 1..Len(tasks) /\ tasks[i].status = "signed"
    /\ max_slot_height' = NewWatermark(tasks[i].slot, max_slot_height)
    /\ \/ /\ tasks' = [tasks EXCEPT ![i].status = "err"]
          /\ UNCHANGED succeeded
       \/ /\ lock = "free"
          /\ succeeded' = succeeded \cup {tasks[i].slot}
          /\ tasks' = [tasks EXCEPT ![i].status = "ok"]
    /\ UNCHANGED <<worker_unchanged, lock>>

\* lines 501-508 and 455-468: client.send_transaction_with_config(..)?; on
\* Ok the wrapper locks the mutex and raises the watermark, on Err it logs
WorkerSend(i) ==
    /\ i \in 1..Len(tasks) /\ tasks[i].status = "signed"
    /\ \/ /\ tasks' = [tasks EXCEPT ![i].status = "err"]
          /\ UNCHANGED <<max_slot_height, succeeded>>
       \/ /\ lock = "free"
          /\ max_slot_height' = NewWatermark(tasks[i].slot, max_slot_height)
          /\ succeeded' = succeeded \cup {tasks[i].slot}
          /\ tasks' = [tasks EXCEPT ![i].status = "ok"]
    /\ UNCHANGED <<worker_unchanged, lock>>

Worker == \E i \in 1..MaxWorkers : WorkerBlockhash(i) \/ WorkerSend(i)

Next ==
    \/ Startup \/ Sleep \/ GetEventQ \/ StaleGate
    \/ Decode \/ Submit \/ Join
    \/ Worker

Spec == Init /\ [][Next]_vars

\* Once in the dispatch step the main thread goes on submitting and then
\* joining, and the pool (num_workers threads taking the queued closures) does
\* not stand still while a task is unfinished; an RPC call of a worker
\* returns, with a result or with an error.
FairSpec ==
    /\ Spec
    /\ WF_vars(Submit \/ Join)
    /\ WF_vars(Worker)

(***************************************************************************)
(* consume_events_once in detail: the pool threads of one dispatch, each    *)
(* building, signing and sending its transaction, while the main thread     *)
(* waits in pool.join().  The loop above keeps only each task's result;     *)
(* here a task also carries the transaction it built.                       *)
(***************************************************************************)
\* `to_consume as u16`: the low 16 bits
AsU16(to_consume) == to_consume % (U16Max + 1)

\* rand::random::<u64>() % 10000 + 1
TransferAmount(random_u64) == (random_u64 % 10000) + 1

\* the values rand::random::<u64>() is followed for, and the blockhashes the
\* node may answer with
RandomU64s == {0, 9999, 10000}
Blockhashes == {"hash_a", "hash_b"}

\* the transaction with a transfer of a fixed amount for the random one
Transaction_FixedTransfer(payer, to_consume, metas, random_u64, recent_hash) ==
    [instructions |->
        <<[program_id |-> "dex", accounts |-> metas,
           data |-> [tag |-> "ConsumeEvents", limit |-> AsU16(to_consume)]],
          [program_id |-> "system", from |-> payer, to |-> payer,
           lamports |-> 1]>>,
     payer |-> payer, recent_blockhash |-> recent_hash]

\* lines 481-498: Transaction::new_signed_with_payer(&[instruction,
\* random_instruction], Some(&payer.pubkey()), &[payer], recent_hash); the
\* signature is a function of the message signed
Transaction(payer, to_consume, metas, random_u64, recent_hash) ==
    [instructions |->
        <<[program_id |-> "dex", accounts |-> metas,
           data |-> [tag |-> "ConsumeEvents", limit |-> AsU16(to_consume)]],
          [program_id |-> "system", from |-> payer, to |-> payer,
           lamports |-> TransferAmount(random_u64)]>>,
     payer |-> payer, recent_blockhash |-> recent_hash]

\* the values of --events-per-worker followed: 1, and the end of the u16
\* range with the two values past it
ToConsumeValues == {1, U16Max, U16Max + 1, U16Max + 2}

\* read_keypair_file(&payer_path) of line 403, once per thread: every thread
\* reads the same key, or the file is replaced before the last thread's read
PayerOf(rotated, thread, count) ==
    IF rotated /\ count > 1 /\ thread = count THEN "payer_b" ELSE "payer_a"

\* the state once lines 402-422 have handed worker_count closures to the pool
InitOnce ==
    /\ command = "ConsumeEvents"
    /\ pc = "dispatch"
    /\ num_workers = MaxWorkers
    /\ events_per_worker \in ToConsumeValues
    /\ num_accounts = MaxAccounts
    /\ max_q_length = 1 /\ max_wait_for_events_delay = MaxWait
    /\ now = MaxWait + SleepSecs /\ last_cranked_at = 0 /\ iterations = 1
    /\ max_slot_height = 0 /\ lock = "free"
    /\ event_q_slot = 1
    /\ event_q_value = NoAccount
    /\ inner = NotRun /\ parsed = NotRun
    /\ account_metas \in {BuildAccountMetas(<<>>),
                          BuildAccountMetas(<<CHOOSE o \in Owners : TRUE>>)}
    /\ worker_count \in 1..MaxWorkers
    /\ thread_num = worker_count
    /\ \E rotated \in BOOLEAN :
         tasks = [i \in 1..worker_count |->
                  [thread_num |-> i - 1, slot |-> event_q_slot,
                   account_metas |-> account_metas,
                   payer |-> PayerOf(rotated, i, worker_count),
                   to_consume |-> events_per_worker,
                   random_u64 |-> 0,        \* read only once drawn
                   txn |-> NoTransaction, status |-> "queued"]]
    /\ outcome = {}
    /\ iter_start = [watermark |-> 0, cranked |-> 0]
    /\ succeeded = {}

\* lines 481-498: build both instructions, client.get_recent_blockhash()?,
\* then sign
OnceSign(i) ==
    /\ i \in 1..Len(tasks) /\ tasks[i].status = "queued"
    /\ \/ tasks' = [tasks EXCEPT ![i].status = "err"]
       \/ \E random_u64 \in RandomU64s, recent_hash \in Blockhashes :
             tasks' = [tasks EXCEPT
                          ![i].status = "signed",
                          ![i].random_u64 = random_u64,
                          ![i].txn = Transaction(tasks[i].payer,
                                                 tasks[i].to_consume,
                                                 tasks[i].account_metas,
                                                 random_u64, recent_hash)]
    /\ UNCHANGED <<worker_unchanged, max_slot_height, lock, succeeded>>

\* lines 501-508 and 455-468, as WorkerSend; the task keeps the transaction
\* it has sent
OnceSend(i) ==
    /\ i \in 1..Len(tasks) /\ tasks[i].status = "signed"
    /\ \/ /\ tasks' = [tasks EXCEPT ![i].status = "err"]
          /\ UNCHANGED <<max_slot_height, succeeded>>
       \/ /\ lock = "free"
          /\ max_slot_height' = NewWatermark(tasks[i].slot, max_slot_height)
          /\ succeeded' = succeeded \cup {tasks[i].slot}
          /\ tasks' = [tasks EXCEPT ![i].status = "ok"]
    /\ UNCHANGED <<worker_unchanged, lock>>

NextOnce == (\E i \in 1..MaxWorkers : OnceSign(i) \/ OnceSend(i)) \/ Join

SpecOnce == InitOnce /\ [][NextOnce]_vars

(***************************************************************************)
(* Properties of the crank loop, checked under Spec.                       *)
(***************************************************************************)
SetMax(S) == IF S = {} THEN 0 ELSE CHOOSE x \in S : \A y \in S : y <= x

GateOutcomes == {"stale", "empty", "throttled"}

\* the loop body has been entered and left, by `continue`, by falling off its
\* end, by `?` returning an error or by a panic
IterationEnded == iterations > 0 /\ pc \in {"sleep", "returned_err", "panicked"}

LiveEvents == parsed.val.seg0 \o parsed.val.seg1
UserAccounts == SubSeq(account_metas, 1, Len(account_metas) - 4)

\* C4: slot_watermark is the greatest slot of the workers that have returned
\* Ok so far, 0 if none, and no step lowers it.
C4_WatermarkIsMax ==
    /\ [](max_slot_height = SetMax(succeeded))
    /\ [][max_slot_height' >= max_slot_height]_vars

\* workers of two dispatches, at different slots, have succeeded
C4_Witness == succeeded = {1, 2} /\ max_slot_height = 2

\* C5 as stated: every iteration ends in exactly one of stale, empty,
\* throttled, dispatched.
C5_ExactlyOneOutcome == IterationEnded => Cardinality(outcome) = 1

\* C5 amended: an iteration ends in at most one of the four outcomes, and in
\* none of them exactly when it fails with an error or a panic.
C5_AtMostOneOutcome ==
    IterationEnded =>
        /\ Cardinality(outcome) <= 1
        /\ outcome = {} <=> pc \in {"returned_err", "panicked"}

\* an iteration ended throttled and the loop sleeps again
C5_Witness == IterationEnded /\ outcome = {"throttled"} /\ pc = "sleep"

\* C6: an iteration that dispatched on event_q_len > 0 events with
\* events_per_worker > 0 gave the pool exactly
\* min(num_workers, 2 * event_q_len / events_per_worker + 1) tasks, between 1
\* and num_workers of them; while it is still submitting it has given no more.
C6_WorkerCount ==
    LET bound == Min(num_workers, (2 * Len(LiveEvents)) \div events_per_worker + 1)
    IN  /\ (pc = "dispatch" /\ Len(LiveEvents) > 0 /\ events_per_worker > 0) =>
              Len(tasks) <= bound
        /\ ("dispatched" \in outcome /\ Len(LiveEvents) > 0 /\ events_per_worker > 0) =>
              /\ Len(tasks) = bound
              /\ 1 <= Len(tasks) /\ Len(tasks) <= num_workers

\* the backlog, not num_workers, decided the count: one task of two possible
C6_Witness ==
    /\ "dispatched" \in outcome
    /\ Len(LiveEvents) = 1 /\ events_per_worker = 3 /\ num_workers = 2
    /\ Len(tasks) = 1

\* C7: a dispatch names at most num_accounts user accounts, none at all when
\* num_accounts is 0.
C7_AtMostNumAccounts ==
    pc = "dispatch" => Len(UserAccounts) <= num_accounts

\* C8: the user accounts of a dispatch are pairwise distinct and each is the
\* owner of a live event of the queue read in this iteration.
C8_UniqueOwners ==
    pc = "dispatch" =>
        /\ \A i, j \in 1..Len(UserAccounts) :
              UserAccounts[i].pubkey = UserAccounts[j].pubkey => i = j
        /\ \A i \in 1..Len(UserAccounts) :
              \E k \in 1..Len(LiveEvents) :
                  UserAccounts[i].pubkey = transmute_to_bytes(LiveEvents[k].owner)
        /\ \A t \in 1..Len(tasks) : tasks[t].account_metas = account_metas

\* two live events of one owner gave a single user account, below the cap
C8_Witness ==
    /\ pc = "dispatch" /\ Len(tasks) > 0
    /\ Len(LiveEvents) = 2 /\ LiveEvents[1].owner = LiveEvents[2].owner
    /\ num_accounts = 2 /\ Len(UserAccounts) = 1

\* C9: an iteration whose fetched slot is at most the watermark it reads
\* submits no task and never reaches the dispatch step.
C9_StaleSlotGate ==
    (iterations > 0 /\ pc # "get_event_q" /\ event_q_slot <= iter_start.watermark) =>
        /\ tasks = <<>>
        /\ pc \notin {"decode", "dispatch"}
        /\ "dispatched" \notin outcome

\* the node returned a non-empty queue at exactly the watermark's slot, and
\* the iteration ended stale
C9_Witness ==
    /\ pc = "sleep" /\ outcome = {"stale"}
    /\ event_q_slot = max_slot_height /\ max_slot_height > 0
    /\ event_q_value.some
    /\ LET pa == parse_event_queue(
                    remove_dex_account_padding(event_q_value.data,
                                               event_q_value.aligned).val)
       IN  pa.kind = "ok" /\ Len(pa.val.seg0) + Len(pa.val.seg1) > 0

\* C10: an iteration that ended in a gate submitted no task and left the
\* watermark and last_cranked_at as they were when it began.
C10_GatedChangesNothing ==
    (IterationEnded /\ outcome \cap GateOutcomes # {}) =>
        /\ tasks = <<>>
        /\ max_slot_height = iter_start.watermark
        /\ last_cranked_at = iter_start.cranked

\* an empty queue at a fresh slot, after an earlier dispatch had succeeded
C10_Witness ==
    /\ IterationEnded /\ outcome = {"empty"}
    /\ max_slot_height > 0 /\ event_q_slot > max_slot_height
    /\ last_cranked_at > 0

\* the empty and throttle gates of this iteration have been evaluated on a
\* non-empty queue: both queues decoded, and the iteration either went back
\* to sleep, or went on to build the account metas of a dispatch
ThrottleGateReached ==
    /\ iterations > 0 /\ parsed.kind = "ok" /\ Len(LiveEvents) > 0
    /\ pc \in {"sleep", "dispatch"} \/ account_metas # <<>>

\* C11: an iteration that reaches the throttle gate with a fresh slot and a
\* non-empty queue is skipped as throttled if and only if
\* now - last_cranked_at < max_wait_for_events_delay and
\* event_q_len < max_q_length; it then submits nothing, and when either
\* conjunct is false it is not gated and enters the dispatch step.
C11_ThrottleGate ==
    ThrottleGateReached =>
        LET recent == now - iter_start.cranked < max_wait_for_events_delay
            short == Len(LiveEvents) < max_q_length
        IN  /\ "throttled" \in outcome <=> (recent /\ short)
            /\ (recent /\ short) => (pc = "sleep" /\ tasks = <<>> /\ account_metas = <<>>)
            /\ ~(recent /\ short) =>
                  /\ outcome \cap GateOutcomes = {}
                  /\ Len(account_metas) >= 4
                  /\ pc = "sleep" => "dispatched" \in outcome

\* max_q_length 2, one live event and a crank one second ago: throttled
C11_Witness ==
    /\ ThrottleGateReached /\ outcome = {"throttled"}
    /\ max_q_length = 2 /\ Len(LiveEvents) = 1
    /\ now - iter_start.cranked = 1 /\ max_wait_for_events_delay = 2

\* one live event with max_q_length 1 and a crank one second ago: dispatched
C11_DispatchReached ==
    /\ ThrottleGateReached /\ outcome = {"dispatched"}
    /\ max_q_length = 1 /\ Len(LiveEvents) = 1
    /\ now - iter_start.cranked = 1 /\ max_wait_for_events_delay = 2

\* C12: the control loop never aborts on a per-iteration error: an iteration
\* in which a fetch fails, an account is missing or a queue account does not
\* decode leaves the main thread inside the loop, on its way to the next sleep.
C12_LoopNeverAborts ==
    (iterations > 0 /\ account_metas = <<>>) => pc \notin {"returned_err", "panicked"}

\* C13: a command line with events_per_worker = 0 is rejected at startup: the
\* control loop is never entered, so no iteration divides by zero in the
\* worker-count formula.
C13_ZeroRejectedAtStartup ==
    events_per_worker = 0 =>
        /\ pc # "sleep" /\ iterations = 0
        /\ ~(pc = "panicked" /\ account_metas # <<>>)

\* the step in which worker i fails: its blockhash fetch or its send returns
\* an error
WorkerFails(i) ==
    /\ i \in 1..Len(tasks) /\ Len(tasks') = Len(tasks)
    /\ tasks[i].status \in {"queued", "signed"} /\ tasks'[i].status = "err"

\* every task of the dispatch has been submitted and the main thread is in
\* pool.join()
InJoin == pc = "dispatch" /\ thread_num = worker_count

SomeTaskFailed == \E i \in 1..Len(tasks) : tasks[i].status = "err"

\* C14: a worker whose blockhash fetch or send fails leaves the watermark, the
\* other tasks and the main thread as they are; its task stays failed for the
\* rest of the iteration (nothing is sent again); and the main thread waiting
\* in join still gets back to the top of the loop.
C14_WorkerFailureIsLocal ==
    /\ [][\A i \in 1..MaxWorkers :
            /\ WorkerFails(i) =>
                  /\ max_slot_height' = max_slot_height
                  /\ succeeded' = succeeded
                  /\ lock' = lock /\ pc' = pc /\ last_cranked_at' = last_cranked_at
                  /\ \A j \in 1..Len(tasks) : j # i => tasks'[j] = tasks[j]
            /\ (i \in 1..Len(tasks) /\ tasks[i].status = "err") =>
                  (tasks' = <<>> \/ (Len(tasks') >= Len(tasks) /\ tasks'[i] = tasks[i]))
         ]_vars
    /\ (InJoin /\ SomeTaskFailed) ~> (pc = "sleep")

\* of two workers of one dispatch the first failed and the second succeeded,
\* and the loop is back at its sleep with the watermark at the second's slot
C14_Witness ==
    /\ pc = "sleep" /\ "dispatched" \in outcome
    /\ Len(tasks) = 2 /\ tasks[1].status = "err" /\ tasks[2].status = "ok"
    /\ max_slot_height = tasks[2].slot /\ max_slot_height > iter_start.watermark

\* C15: once a worker of a dispatch made at slot s has succeeded, no later
\* iteration gives the pool a task for a queue observed at a slot <= s: a
\* task is submitted only at a slot above that of every success so far, or
\* at the slot of a success of its own dispatch.
C15_NoResubmission ==
    [][Len(tasks') > Len(tasks) =>
          \A s \in succeeded :
              \/ s < tasks'[Len(tasks')].slot
              \/ /\ s = tasks'[Len(tasks')].slot
                 /\ \E j \in 1..Len(tasks) : tasks[j].status = "ok" /\ tasks[j].slot = s
      ]_vars

\* after a success at slot 1 a later iteration has submitted a task at slot 2
C15_Witness ==
    /\ 1 \in succeeded /\ iterations >= 2
    /\ Len(tasks) > 0 /\ tasks[1].slot = 2 /\ tasks[1].status = "queued"

\* C16: when the main thread is at the top of the loop, fetching, or reading
\* the watermark for the stale-slot gate, no task of an earlier iteration is
\* queued or running; the value it reads under the lock is the greatest slot
\* of all the successes so far.
C16_ReadAfterJoin ==
    pc \in {"sleep", "get_event_q", "stale_gate"} =>
        /\ \A i \in 1..Len(tasks) : TaskDone(tasks[i])
        /\ pc = "stale_gate" =>
              /\ lock = "control"
              /\ max_slot_height = SetMax(succeeded)

\* the watermark is read after an earlier dispatch whose worker succeeded
C16_Witness ==
    /\ pc = "stale_gate" /\ lock = "control" /\ iterations >= 2
    /\ succeeded = {1} /\ max_slot_height = 1

\* C17: an iteration that has submitted at least one task does not leave the
\* dispatch step, by any path, before every task it submitted has finished.
C17_JoinAll ==
    (tasks # <<>> /\ pc # "dispatch") => \A i \in 1..Len(tasks) : TaskDone(tasks[i])

\* C18: the main thread holds the watermark's lock only between acquiring it
\* and the stale-slot test: not while it sleeps, fetches, decodes, submits
\* tasks or waits in join, and not after it has left the loop.  So a worker
\* that needs the lock finds it free, and a main thread waiting in join gets
\* back to the top of the loop.
C18_LockNotHeld ==
    /\ [](lock = "control" => (pc = "stale_gate" /\ tasks = <<>>))
    /\ [](pc \in {"sleep", "get_event_q", "decode", "dispatch",
                  "returned_err", "panicked"} => lock = "free")
    /\ InJoin ~> (pc = "sleep")

\* the main thread waits in join; one worker has taken the lock and raised
\* the watermark, the other is about to send
C18_Witness ==
    /\ InJoin /\ lock = "free" /\ Len(tasks) = 2
    /\ tasks[1].status = "ok" /\ tasks[2].status = "signed"
    /\ max_slot_height = tasks[1].slot

\* C19: an iteration that has entered the dispatch step leaves it only by
\* going back to the top of the loop with last_cranked_at set to the time of
\* the join, whatever the results of its workers.
C19_DispatchReturnsToIdle ==
    (iterations > 0 /\ account_metas # <<>> /\ pc # "dispatch") =>
        /\ pc = "sleep" /\ "dispatched" \in outcome
        /\ last_cranked_at = now

\* the owners of the live events, as account addresses
LiveOwnerKeys == {transmute_to_bytes(LiveEvents[k].owner) : k \in 1..Len(LiveEvents)}

\* C20: the account-meta list of every task given to the pool is some user
\* accounts (owners of live events, each once) followed by exactly four
\* entries: market, event queue, coin wallet, pc wallet, in this order; every
\* entry is writable and not a signer; and all tasks of a dispatch carry the
\* same list.
C20_AccountMetaShape ==
    \A t \in 1..Len(tasks) :
        LET metas == tasks[t].account_metas
            n == Len(metas)
        IN  /\ n >= 4
            /\ <<metas[n - 3].pubkey, metas[n - 2].pubkey,
                  metas[n - 1].pubkey, metas[n].pubkey>>
                   = <<MarketKey, EventQKey, CoinWallet, PcWallet>>
            /\ \A i \in 1..n : metas[i].is_writable /\ ~metas[i].is_signer
            /\ {metas[i].pubkey : i \in 1..(n - 4)} \subseteq LiveOwnerKeys
            /\ n = Cardinality({metas[i].pubkey : i \in 1..(n - 4)}) + 4
            /\ metas = tasks[1].account_metas

\* two workers of one dispatch hold the same list of two user accounts and
\* the four fixed accounts
C20_Witness ==
    /\ Len(tasks) = 2
    /\ Len(tasks[1].account_metas) = 6
    /\ tasks[2].account_metas = tasks[1].account_metas
    /\ tasks[1].account_metas[3].pubkey = MarketKey

\* the owners of the live events, in queue order
LiveOwners == [k \in 1..Len(LiveEvents) |-> LiveEvents[k].owner]

\* the reorderings of a sequence
Reorderings(seq) ==
    {[k \in 1..Len(seq) |-> seq[f[k]]] :
        f \in {g \in [1..Len(seq) -> 1..Len(seq)] :
                  \A a, b \in 1..Len(seq) : g[a] = g[b] => a = b}}

\* the user accounts are in strictly ascending order of their four words
UserAccountsAscending ==
    \A i \in 1..(Len(UserAccounts) - 1) :
        OwnerLess(WordsOfBytes(UserAccounts[i].pubkey),
                  WordsOfBytes(UserAccounts[i + 1].pubkey))

\* the account metas a queue with the same events in another order would give
SameListInAnyOrder ==
    \A other \in Reorderings(LiveOwners) :
        BuildAccountMetas(UsedAccounts(other, <<>>, num_accounts)) = account_metas

\* C23 as stated: the user accounts of a dispatch are sorted ascending, and a
\* queue holding the same owners in another event order yields the same
\* account-meta list, for any num_accounts.
C23_OrderIrrelevant ==
    pc = "dispatch" => (UserAccountsAscending /\ SameListInAnyOrder)

\* C23 amended: the user accounts are sorted ascending (as four-word values),
\* and a queue holding the same owners in another event order yields the
\* same list when the queue has no more than num_accounts distinct owners.
C23_OrderIrrelevantBelowCap ==
    pc = "dispatch" =>
        /\ UserAccountsAscending
        /\ Cardinality(Range(LiveOwners)) <= num_accounts => SameListInAnyOrder

\* the greater owner came first in the queue and is listed second
C23_Witness ==
    /\ pc = "dispatch" /\ num_accounts = 2 /\ Len(LiveEvents) = 2
    /\ OwnerLess(LiveOwners[2], LiveOwners[1])
    /\ Len(UserAccounts) = 2
    /\ UserAccounts[1].pubkey = Pubkey(LiveOwners[2])
    /\ UserAccounts[2].pubkey = Pubkey(LiveOwners[1])

\* C24: the first iteration is never throttled: whatever max wait and
\* max_q_length are configured, a first poll that returns a fresh slot and a
\* non-empty queue is followed by the dispatch step.
C24_FirstIterationEligible ==
    (iterations = 1 /\ ThrottleGateReached) =>
        /\ "throttled" \notin outcome
        /\ Len(account_metas) >= 4

\* C25: the request queue is looked at for logging only: once the event
\* queue is fetched and decodes, whether the iteration dispatches, its worker
\* count and its account metas are those the gates give on the event queue
\* alone, whatever request-queue account the node returns (none, or one that
\* does not decode, included).
C25_RequestQueueIrrelevant ==
    [][pc = "decode" =>
          LET in == remove_dex_account_padding(event_q_value.data, event_q_value.aligned)
              pa == parse_event_queue(in.val)
          IN  (event_q_value.some /\ in.kind = "ok" /\ pa.kind = "ok") =>
                  /\ pc' = Gates(pa).pc
                  /\ worker_count' = Gates(pa).worker_count
                  /\ account_metas' = Gates(pa).account_metas
      ]_vars

\* C26: throttling cannot starve a backlog.  A poll that succeeds with a
\* fresh slot and a non-empty queue once max_wait_for_events_delay seconds
\* have elapsed since last_cranked_at is not throttled and enters the
\* dispatch step, whatever max_q_length is; and with max_q_length <= 1 no
\* such poll is throttled at any time.
C26_NoStarvation ==
    ThrottleGateReached =>
        /\ now - iter_start.cranked >= max_wait_for_events_delay =>
              ("throttled" \notin outcome /\ Len(account_metas) >= 4)
        /\ max_q_length <= 1 =>
              ("throttled" \notin outcome /\ Len(account_metas) >= 4)

\* a queue of one event, shorter than max_q_length, is dispatched at the
\* poll where exactly max_wait seconds have elapsed without a crank
C26_Witness ==
    /\ ThrottleGateReached /\ "dispatched" \in outcome
    /\ iterations = 2 /\ iter_start.cranked = 0
    /\ Len(LiveEvents) = 1 /\ max_q_length = 2
    /\ max_wait_for_events_delay = 2 /\ now - iter_start.cranked = 2

(***************************************************************************)
(* Properties of the workers' transactions, checked under SpecOnce.        *)
(***************************************************************************)
Built(i) == i \in 1..Len(tasks) /\ tasks[i].txn # NoTransaction

\* the limit of the ConsumeEvents instruction of task i
Limit(i) == tasks[i].txn.instructions[1].data.limit

\* C21: the limit carried by the ConsumeEvents instruction is
\* events_per_worker clipped to the u16 range: events_per_worker itself up to
\* 65535, and 65535 above.
C21_LimitClipped ==
    \A i \in 1..MaxWorkers :
        Built(i) => Limit(i) = IF events_per_worker <= U16Max
                               THEN events_per_worker ELSE U16Max

\* C22 as stated: any two workers of one dispatch build distinct
\* transactions, whatever amounts they draw and blockhashes they fetch.
C22_AlwaysDistinct ==
    \A i, j \in 1..MaxWorkers :
        (Built(i) /\ Built(j) /\ i # j) => tasks[i].txn # tasks[j].txn

\* C22 amended: two workers of one dispatch build the same transaction
\* exactly when they were given the same payer key, fetch the same blockhash
\* and draw random values equal modulo 10000; otherwise their transactions
\* differ.
C22_DistinctUnlessSameDraw ==
    \A i, j \in 1..MaxWorkers :
        (Built(i) /\ Built(j) /\ i # j) =>
            (tasks[i].txn = tasks[j].txn <=>
                /\ tasks[i].payer = tasks[j].payer
                /\ tasks[i].random_u64 % 10000 = tasks[j].random_u64 % 10000
                /\ tasks[i].txn.recent_blockhash = tasks[j].txn.recent_blockhash)

\* two workers with one payer key, on one blockhash, drew different amounts
\* and both sent
C22_Witness ==
    /\ Len(tasks) = 2 /\ tasks[1].status = "ok" /\ tasks[2].status = "ok"
    /\ tasks[1].payer = tasks[2].payer
    /\ tasks[1].txn.recent_blockhash = tasks[2].txn.recent_blockhash
    /\ tasks[1].random_u64 = 0 /\ tasks[2].random_u64 = 9999
    /\ tasks[1].txn # tasks[2].txn

(***************************************************************************)
(* Properties of the decoder, checked under SpecPrint.                     *)
(***************************************************************************)
ParseRan == inner.kind = "ok" /\ parsed # NotRun

\* what parse_event_queue was given: capacity, head and count
GivenCapacity == (Len(inner.val) - HeaderWords) \div EventWords
GivenHead == inner.val[2]
GivenCount == inner.val[3]

\* the event at 0-based physical index k of the words given
PhysicalEvent(k) ==
    Event(SubSeq(inner.val, HeaderWords + EventWords * k + 1,
                 HeaderWords + EventWords * (k + 1)))

InRange ==
    /\ ParseRan
    /\ Len(inner.val) >= HeaderWords
    /\ GivenHead <= GivenCapacity
    /\ GivenCount <= GivenCapacity

\* C1: with head <= capacity and count <= capacity, parse_event_queue does
\* not fail on a queue of at least one event, and seg0 followed by seg1 is
\* the count events at physical indices head, head+1, ... modulo capacity,
\* in that order; seg0 holds min(capacity - head, count) of them.
C1_RoundTrip ==
    InRange =>
        /\ parsed.kind # "panic"
        /\ GivenCapacity >= 1 => parsed.kind = "ok"
        /\ parsed.kind = "ok" =>
              /\ parsed.val.seg0 \o parsed.val.seg1 =
                    [i \in 1..GivenCount |->
                        PhysicalEvent((GivenHead + i - 1) % GivenCapacity)]
              /\ Len(parsed.val.seg0) = Min(GivenCapacity - GivenHead, GivenCount)
              /\ Len(parsed.val.seg0) + Len(parsed.val.seg1) = GivenCount

\* capacity 16, head 14, count 5 was parsed into 2 and 3 events
C1_Witness ==
    /\ InRange
    /\ GivenCapacity = 16 /\ GivenHead = 14 /\ GivenCount = 5
    /\ parsed.kind = "ok"
    /\ Len(parsed.val.seg0) = 2 /\ Len(parsed.val.seg1) = 3

\* C2: parse_event_queue never panics, whatever words it is given.
C2_NeverPanics == ParseRan => parsed.kind # "panic"

\* C3: remove_dex_account_padding returns TooShort, and does not crash, on
\* every input shorter than the head padding plus the tail padding.
C3_TooShort ==
    (inner # NotRun /\ Len(event_q_value.data)
                          < Len(ACCOUNT_HEAD_PADDING) + Len(ACCOUNT_TAIL_PADDING))
        => inner = Err("TooShort")

====
